---- MODULE Spec2Model ----
(***************************************************************************)
(* Model of the text layout pipeline of src/src/text_layout.rs:            *)
(* get_glyphs and the stages it calls, one action per stage.               *)
(*                                                                         *)
(* f32 values are represented by integers that count HALF pixels, so that  *)
(* the Center factor 0.5 of align_text_horz is exact.  Every input of the  *)
(* model is a whole number of pixels (an even number of half pixels); on   *)
(* such values the f32 arithmetic of the code is exact as well.            *)
(***************************************************************************)
EXTENDS Integers, Sequences, FiniteSets, TLC

\* ------------------------------------------------------------------ bounds
MaxLen == 3      \* longest input text, in characters
MaxWidth == 4    \* widest rectangle, in pixels
MaxHeight == 2   \* tallest rectangle, in pixels

\* f32 value of a whole number of pixels
Px(n) == 2 * n

\* ------------------------------------------------------------- characters
\* The characters of the model.  "acute" is U+0301 COMBINING ACUTE ACCENT and
\* "eacute" is U+00E9, the character NFC composes from "e" followed by it.
Separators == {" ", "\t", "\n"}
Letters == {"a", "e"}
AsciiChars == Letters \cup Separators
AllChars == AsciiChars \cup {"acute"}

RECURSIVE TextsOver(_, _)
TextsOver(chars, n) ==
    IF n = 0 THEN {<< >>}
    ELSE LET shorter == TextsOver(chars, n - 1)
         IN  shorter \cup {Append(t, c) : t \in {s \in shorter : Len(s) = n - 1}, c \in chars}

\* text.nfc(): canonical composition.  A combining acute accent composes with
\* an "e" right before it; every other character of the model is unchanged.
RECURSIVE nfc(_)
nfc(text) ==
    IF text = << >> THEN << >>
    ELSE LET init == nfc(SubSeq(text, 1, Len(text) - 1))
             c == text[Len(text)]
         IN  IF c = "acute" /\ init # << >> /\ init[Len(init)] = "e"
             THEN Append(SubSeq(init, 1, Len(init) - 1), "eacute")
             ELSE Append(init, c)

\* ------------------------------------------------------------------ fonts
\* A font at the scale of the call (rusttype Font + Scale): horizontal
\* advances, pair kerning and the vertical metrics; scale_y is
\* font_size * line_height.  Every value is in half pixels.
AdvancePx(c) == CASE c = "a" -> 2 [] c = "e" -> 3 [] c = "eacute" -> 3
                  [] c = "acute" -> 0 [] c = " " -> 1 [] OTHER -> 0

Fonts ==
    { [name |-> "plain",  kerns |-> FALSE, ascent |-> Px(0), descent |-> Px(0) - Px(2),
       line_gap |-> Px(0), scale_y |-> Px(2)],
      [name |-> "kerned", kerns |-> TRUE,  ascent |-> Px(1), descent |-> Px(0) - Px(1),
       line_gap |-> Px(1), scale_y |-> Px(2)] }

\* font.glyph(c).scaled(..).h_metrics().advance_width
advance_width(font, c) == Px(AdvancePx(c))

\* font.pair_kerning(scale, last, id)
pair_kerning(font, last, id) ==
    IF font.kerns /\ last = "a" /\ id \in {"e", "eacute"} THEN Px(0) - Px(1) ELSE Px(0)

\* the FontMetrics snapshot built by get_glyphs
FontMetricsOf(font) ==
    [ space_width      |-> advance_width(font, " "),
      tab_width        |-> 4 * advance_width(font, " "),
      vertical_advance |-> font.scale_y,
      offset_top       |-> font.ascent ]

\* ------------------------------------------------------------------ state
VARIABLES
    pc,                 \* stage of get_glyphs reached
    text,               \* input: the characters of the text
    font,               \* input: the font at the call's scale
    words,              \* output of split_text_into_words
    size,               \* input: bounds.size
    allows_horizontal_overflow,   \* input: overflow.allows_horizontal_overflow()
    scrollbar_width,    \* input: scrollbar_info.width (usize, pixels)
    overflow_pass_1,    \* output of estimate_overflow_pass_1
    new_size,           \* effective size returned by estimate_overflow_pass_2
    overflow_pass_2,    \* overflow returned by estimate_overflow_pass_2
    left_aligned_glyphs,   \* glyphs returned by words_to_left_aligned_glyphs
    line_break_offsets,    \* line-break table returned by it
    horiz_alignment,    \* input: horizontal alignment
    origin,             \* input: bounds.origin
    aligned_glyphs,     \* glyphs after align_text_horz
    positioned_glyphs   \* glyphs returned by get_glyphs

vars == << pc, text, font, words, size, allows_horizontal_overflow, scrollbar_width,
           overflow_pass_1, new_size, overflow_pass_2, left_aligned_glyphs,
           line_break_offsets, horiz_alignment, origin, aligned_glyphs,
           positioned_glyphs >>

\* -------------------------------------------------------------- segmenter
Tab == [kind |-> "Tab"]
Return == [kind |-> "Return"]

\* the accumulator of split_text_into_words
EmptyAcc == [ words |-> << >>, word_caret |-> 0, cur_word_length |-> 0,
              chars_in_this_word |-> << >>, glyphs_in_this_word |-> << >>,
              last_glyph |-> "None" ]

\* end_word without the reset of the caret and of the last glyph
end_word_keeps_caret(acc) ==
    [ acc EXCEPT
        !.words = Append(@, [ kind |-> "Word",
                              text |-> acc.chars_in_this_word,
                              glyphs |-> acc.glyphs_in_this_word,
                              total_width |-> acc.cur_word_length ]),
        !.chars_in_this_word = << >>,
        !.glyphs_in_this_word = << >>,
        !.cur_word_length = 0 ]

end_word(acc) ==
    [ acc EXCEPT
        !.words = Append(@, [ kind |-> "Word",
                              text |-> acc.chars_in_this_word,
                              glyphs |-> acc.glyphs_in_this_word,
                              total_width |-> acc.cur_word_length ]),
        !.chars_in_this_word = << >>,
        !.glyphs_in_this_word = << >>,
        !.last_glyph = "None",
        !.word_caret = 0,
        !.cur_word_length = 0 ]

end_word_if_any(acc) ==
    IF acc.chars_in_this_word # << >> THEN end_word(acc) ELSE acc

\* one iteration of the loop over the characters
split_step(acc, f, cur_char) ==
    CASE cur_char = "\t" ->
            [end_word_if_any(acc) EXCEPT !.words = Append(@, Tab)]
      [] cur_char = "\n" ->
            [end_word_if_any(acc) EXCEPT !.words = Append(@, Return)]
      [] cur_char = " " ->
            end_word_if_any(acc)
      [] OTHER ->
            LET kerned == IF acc.last_glyph # "None"
                          THEN acc.word_caret + pair_kerning(f, acc.last_glyph, cur_char)
                          ELSE acc.word_caret
                horiz_advance == advance_width(f, cur_char)
            IN  [ acc EXCEPT
                    !.last_glyph = cur_char,
                    !.word_caret = kerned + horiz_advance,
                    !.cur_word_length = @ + horiz_advance,
                    !.glyphs_in_this_word =
                        Append(@, [index |-> cur_char, x |-> kerned, y |-> 0]),
                    !.chars_in_this_word = Append(@, cur_char) ]

RECURSIVE split_loop(_, _, _)
split_loop(acc, f, chars) ==
    IF chars = << >> THEN acc
    ELSE split_loop(split_step(acc, f, Head(chars)), f, Tail(chars))

split_text_into_words(t, f) ==
    end_word_if_any(split_loop(EmptyAcc, f, nfc(t))).words

\* ----------------------------------------------------- overflow estimator
IsOverflowing(v) == [kind |-> "IsOverflowing", amount |-> v]
InBounds(v) == [kind |-> "InBounds", amount |-> v]
is_overflowing(o) == o.kind = "IsOverflowing"

\* words.iter().filter(|w| w.is_return()).count()
count_returns(ws) == Cardinality({i \in 1..Len(ws) : ws[i].kind = "Return"})

\* The wrapping simulation of estimate_overflow_pass_1 (horizontal overflow
\* not permitted): the three cursors after the loop over the words.
RECURSIVE wrap_sim(_, _, _, _)
wrap_sim(cur, ws, width, fm) ==
    IF ws = << >> THEN cur
    ELSE LET w == Head(ws)
             next ==
               CASE w.kind = "Word" ->
                      IF cur.cur_line_cursor + w.total_width > width
                      THEN [ max_line_cursor |->
                               IF cur.cur_line_cursor > cur.max_line_cursor
                               THEN cur.cur_line_cursor ELSE cur.max_line_cursor,
                             cur_line_cursor |-> 0,
                             cur_vertical |-> cur.cur_vertical + fm.vertical_advance ]
                      ELSE [cur EXCEPT !.cur_line_cursor = @ + w.total_width]
                 [] w.kind = "Tab" ->
                      [cur EXCEPT !.cur_line_cursor = @ + fm.tab_width]
                 [] OTHER ->
                      [ max_line_cursor |->
                          IF cur.cur_line_cursor > cur.max_line_cursor
                          THEN cur.cur_line_cursor ELSE cur.max_line_cursor,
                        cur_line_cursor |-> 0,
                        cur_vertical |-> cur.cur_vertical + fm.vertical_advance ]
         IN  wrap_sim(next, Tail(ws), width, fm)

wrap_cursors(ws, width, fm) ==
    wrap_sim([max_line_cursor |-> 0, cur_line_cursor |-> 0, cur_vertical |-> fm.offset_top],
             ws, width, fm)

\* The loop of the horizontal branch (horizontal overflow permitted).
RECURSIVE free_sim(_, _, _)
free_sim(cur, ws, fm) ==
    IF ws = << >> THEN cur
    ELSE LET w == Head(ws)
             next ==
               CASE w.kind = "Word" -> [cur EXCEPT !.cur_line_cursor = @ + w.total_width]
                 [] w.kind = "Tab" -> [cur EXCEPT !.cur_line_cursor = @ + fm.tab_width]
                 [] OTHER ->
                      [ max_line_cursor |->
                          IF cur.cur_line_cursor > cur.max_line_cursor
                          THEN cur.cur_line_cursor ELSE cur.max_line_cursor,
                        cur_line_cursor |-> 0 ]
         IN  free_sim(next, Tail(ws), fm)

\* the block `let vertical_length = { ... }`: the vertical extent consumed
vertical_length(ws, sz, fm, allow) ==
    IF allow THEN count_returns(ws) * fm.vertical_advance
    ELSE wrap_cursors(ws, sz.width, fm).cur_vertical

\* `horz_max`: the horizontal extent consumed
horz_max(ws, sz, fm, allow) ==
    IF allow
    THEN free_sim([max_line_cursor |-> 0, cur_line_cursor |-> 0], ws, fm).max_line_cursor
    ELSE wrap_cursors(ws, sz.width, fm).cur_line_cursor     \* max_hor_len.unwrap()

\* text_overflow with the operands of both subtractions exchanged
text_overflow_exchanged(consumed, bound) ==
    IF consumed > bound THEN [kind |-> "IsOverflowing", amount |-> bound - consumed]
    ELSE [kind |-> "InBounds", amount |-> consumed - bound]

\* `if consumed > bound { IsOverflowing(..) } else { InBounds(..) }`
text_overflow(consumed, bound) ==
    IF consumed > bound THEN IsOverflowing(consumed - bound)
    ELSE InBounds(bound - consumed)

estimate_overflow_pass_1(ws, sz, fm, allow) ==
    [ horizontal |-> text_overflow(horz_max(ws, sz, fm, allow), sz.width),
      vertical   |-> text_overflow(vertical_length(ws, sz, fm, allow), sz.height) ]

\* reserve_scrollbars with each scrollbar taken off its own axis
reserve_scrollbars_same_axis(sz, sb_width, pass1) ==
    [ width  |-> IF is_overflowing(pass1.horizontal) THEN sz.width - Px(sb_width)
                 ELSE sz.width,
      height |-> IF is_overflowing(pass1.vertical) THEN sz.height - Px(sb_width)
                 ELSE sz.height ]

\* the size with the space of the scrollbars subtracted
reserve_scrollbars(sz, sb_width, pass1) ==
    [ width  |-> IF is_overflowing(pass1.vertical) THEN sz.width - Px(sb_width)
                 ELSE sz.width,
      height |-> IF is_overflowing(pass1.horizontal) THEN sz.height - Px(sb_width)
                 ELSE sz.height ]

estimate_overflow_pass_2(ws, sz, fm, allow, sb_width, pass1) ==
    LET shrunk == reserve_scrollbars(sz, sb_width, pass1)
    IN  [ new_size |-> shrunk,
          overflow |-> estimate_overflow_pass_1(ws, shrunk, fm, allow) ]

\* ------------------------------------------------------------------ placer
\* usize::MAX stands above every glyph index; TLC's integers end at 2^31 - 1.
UsizeMax == 2147483647

\* `n - 1` on a usize: with n = 0 the subtraction wraps to usize::MAX when the
\* build has no overflow checks (the caller models the panic of a build that
\* has them).
usize_sub_one(n) == IF n > 0 THEN n - 1 ELSE UsizeMax

SomeWidth(w) == [is_some |-> TRUE, value |-> w]
NoWidth == [is_some |-> FALSE, value |-> 0]

\* font.v_metrics(Scale::uniform(vertical_advance)): ascent - descent + line_gap
v_advance_scaled(f) == f.ascent - f.descent + f.line_gap

\* the state of the loop of words_to_left_aligned_glyphs
EmptyPlacement ==
    [ glyphs |-> << >>, line_break_offsets |-> << >>, word_caret |-> 0,
      current_line_num |-> 0, max_word_caret |-> 0, panicked |-> FALSE ]

\* `let space_until_horz_return = match max_horizontal_width { .. }`
space_until_horz_return(st, max) ==
    IF max.is_some THEN [kind |-> "SomeMaxWidth", value |-> max.value - st.word_caret]
    ELSE [kind |-> "NoMaxWidth", value |-> st.word_caret]

\* line_break_offsets.push((left_aligned_glyphs.len() - 1, space_until_horz_return))
push_line_break(st, max, overflow_checks) ==
    IF Len(st.glyphs) = 0 /\ overflow_checks
    THEN [st EXCEPT !.panicked = TRUE]      \* attempt to subtract with overflow
    ELSE [ st EXCEPT
             !.line_break_offsets =
                 Append(@, << usize_sub_one(Len(st.glyphs)), space_until_horz_return(st, max) >>),
             !.max_word_caret = IF st.word_caret > @ THEN st.word_caret ELSE @ ]

\* a recorded break: push, then reset the caret and count the line
break_line(st, max, overflow_checks) ==
    LET pushed == push_line_break(st, max, overflow_checks)
    IN  IF pushed.panicked THEN pushed
        ELSE [pushed EXCEPT !.word_caret = 0, !.current_line_num = @ + 1]

place_glyphs(st, word, f, fm) ==
    [ st EXCEPT
        !.glyphs = @ \o
            [ i \in 1..Len(word.glyphs) |->
                [ word.glyphs[i] EXCEPT
                    !.x = @ + st.word_caret,
                    !.y = @ + (st.current_line_num * v_advance_scaled(f)) + fm.offset_top ] ],
        !.word_caret = @ + word.total_width + fm.space_width ]

\* one iteration of the loop over the words
place_step(st, word, f, max, fm, overflow_checks) ==
    CASE word.kind = "Word" ->
            LET text_overflows_rect ==
                    IF max.is_some THEN st.word_caret + word.total_width > max.value
                    ELSE FALSE
                broken == IF text_overflows_rect THEN break_line(st, max, overflow_checks)
                          ELSE st
            IN  IF broken.panicked THEN broken ELSE place_glyphs(broken, word, f, fm)
      [] word.kind = "Tab" ->
            [st EXCEPT !.word_caret = @ + fm.tab_width]
      [] OTHER ->
            break_line(st, max, overflow_checks)

RECURSIVE place_loop(_, _, _, _, _, _)
place_loop(st, ws, f, max, fm, overflow_checks) ==
    IF ws = << >> \/ st.panicked THEN st
    ELSE place_loop(place_step(st, Head(ws), f, max, fm, overflow_checks),
                    Tail(ws), f, max, fm, overflow_checks)

\* push_last_line that records nothing for the last line
push_last_line_dropped(st, max, overflow_checks) == st

\* `// push the infos about the last line`
push_last_line(st, max, overflow_checks) ==
    IF ~st.panicked /\ st.glyphs # << >> THEN push_line_break(st, max, overflow_checks)
    ELSE st

\* the final map over line_break_offsets: WordCaretMax -> f32
resolve_space(st) ==
    [ i \in 1..Len(st.line_break_offsets) |->
        LET e == st.line_break_offsets[i]
        IN  << e[1], IF e[2].kind = "SomeMaxWidth" THEN e[2].value
                     ELSE st.max_word_caret - e[2].value >> ]

words_to_left_aligned_glyphs(ws, f, max, fm, overflow_checks) ==
    LET st == push_last_line(place_loop(EmptyPlacement, ws, f, max, fm, overflow_checks),
                             max, overflow_checks)
    IN  [ panicked |-> st.panicked,
          glyphs |-> IF st.panicked THEN << >> ELSE st.glyphs,
          line_break_offsets |-> IF st.panicked THEN << >> ELSE resolve_space(st) ]

\* ---------------------------------------------------------------- aligners
TextAlignmentHorz == {"Left", "Center", "Right"}
TextAlignmentVert == {"Top", "Center", "Bottom"}

\* space_added_full * multiply_factor
times_factor(alignment, space) ==
    IF alignment = "Right" THEN space ELSE space \div 2

\* the loop of align_text_horz; current_line_num counts from 0, and indexing
\* line_breaks past its end panics
RECURSIVE align_loop(_, _, _, _, _)
align_loop(alignment, glyphs, line_breaks, glyph_idx, st) ==
    IF glyph_idx >= Len(glyphs) \/ st.panicked THEN st
    ELSE LET line == IF glyph_idx > line_breaks[st.current_line_num + 1][1]
                     THEN st.current_line_num + 1 ELSE st.current_line_num
         IN  IF line >= Len(line_breaks)
             THEN [st EXCEPT !.panicked = TRUE]
             ELSE align_loop(alignment, glyphs, line_breaks, glyph_idx + 1,
                      [ st EXCEPT
                          !.current_line_num = line,
                          !.glyphs = Append(@,
                              [ glyphs[glyph_idx + 1] EXCEPT
                                  !.x = @ + times_factor(alignment, line_breaks[line + 1][2]) ]) ])

align_text_horz(alignment, glyphs, line_breaks, overflow_checks) ==
    IF line_breaks = << >> THEN [panicked |-> FALSE, glyphs |-> glyphs]
    ELSE IF /\ glyphs = << >>
            /\ overflow_checks
         THEN [panicked |-> TRUE, glyphs |-> glyphs]    \* glyphs.len() - 1 overflows
    ELSE IF usize_sub_one(Len(glyphs)) # line_breaks[Len(line_breaks)][1]
         THEN [panicked |-> TRUE, glyphs |-> glyphs]    \* the assert! fails
    ELSE IF alignment = "Left" THEN [panicked |-> FALSE, glyphs |-> glyphs]
    ELSE LET st == align_loop(alignment, glyphs, line_breaks, 0,
                       [panicked |-> FALSE, current_line_num |-> 0, glyphs |-> << >>])
         IN  [panicked |-> st.panicked, glyphs |-> IF st.panicked THEN glyphs ELSE st.glyphs]

\* the stubs: harfbuzz and Knuth-Plass adjustments, vertical alignment
apply_harfbuzz_adjustments(glyphs) == glyphs
apply_knuth_plass_adjustments(glyphs) == glyphs
align_text_vert(alignment, glyphs, line_breaks) == glyphs

\* add_origin applied two times over
add_origin_twice(glyphs, x, y) ==
    [ i \in 1..Len(glyphs) |-> [glyphs[i] EXCEPT !.x = @ + x + x, !.y = @ + y + y] ]

add_origin(glyphs, x, y) ==
    [ i \in 1..Len(glyphs) |-> [glyphs[i] EXCEPT !.x = @ + x, !.y = @ + y] ]

\* ---------------------------------------------------------------- actions
ScrollbarWidths == {0, 2}
Origins == { [x |-> Px(3), y |-> Px(5)] }

\* step (1) of get_glyphs
SplitText ==
    /\ pc = "start"
    /\ words' = split_text_into_words(text, font)
    /\ pc' = "split"
    /\ UNCHANGED << text, font, size, allows_horizontal_overflow, scrollbar_width,
                    overflow_pass_1, new_size, overflow_pass_2, left_aligned_glyphs,
                    line_break_offsets, horiz_alignment, origin, aligned_glyphs,
                    positioned_glyphs >>

\* step (3): the rectangle and the overflow policy are read here first
EstimateOverflowPass1 ==
    /\ pc = "split"
    /\ \E w \in 0..MaxWidth, h \in 0..MaxHeight, allow \in BOOLEAN :
          /\ size' = [width |-> Px(w), height |-> Px(h)]
          /\ allows_horizontal_overflow' = allow
          /\ overflow_pass_1' =
                estimate_overflow_pass_1(words, size', FontMetricsOf(font), allow)
    /\ pc' = "pass1"
    /\ UNCHANGED << text, font, words, scrollbar_width, new_size, overflow_pass_2,
                    left_aligned_glyphs, line_break_offsets, horiz_alignment, origin,
                    aligned_glyphs, positioned_glyphs >>

\* step (4): the scrollbar is read here first
EstimateOverflowPass2 ==
    /\ pc = "pass1"
    /\ \E sb \in ScrollbarWidths :
          LET r == estimate_overflow_pass_2(words, size, FontMetricsOf(font),
                       allows_horizontal_overflow, sb, overflow_pass_1)
          IN  /\ scrollbar_width' = sb
              /\ new_size' = r.new_size
              /\ overflow_pass_2' = r.overflow
    /\ pc' = "pass2"
    /\ UNCHANGED << text, font, words, size, allows_horizontal_overflow, overflow_pass_1,
                    left_aligned_glyphs, line_break_offsets, horiz_alignment, origin,
                    aligned_glyphs, positioned_glyphs >>

\* `let max_horizontal_text_width = ...`
max_horizontal_text_width ==
    IF allows_horizontal_overflow THEN NoWidth ELSE SomeWidth(new_size.width)

\* step (5); a build with overflow checks panics where one without them wraps
WordsToLeftAlignedGlyphs ==
    /\ pc = "pass2"
    /\ \E overflow_checks \in BOOLEAN :
          LET r == words_to_left_aligned_glyphs(words, font, max_horizontal_text_width,
                       FontMetricsOf(font), overflow_checks)
          IN  /\ left_aligned_glyphs' = r.glyphs
              /\ line_break_offsets' = r.line_break_offsets
              /\ pc' = IF r.panicked THEN "panicked" ELSE "placed"
    /\ UNCHANGED << text, font, words, size, allows_horizontal_overflow, scrollbar_width,
                    overflow_pass_1, new_size, overflow_pass_2, horiz_alignment, origin,
                    aligned_glyphs, positioned_glyphs >>

\* Whether the build checks integer overflow, as far as the placer's table
\* shows it: an index that wrapped to usize::MAX was computed without checks.
\* Builds differ in nothing else.
overflow_checks_of(line_breaks) ==
    \A i \in 1..Len(line_breaks) : line_breaks[i][1] # UsizeMax

\* steps (6) to (11): the alignments and the origin are read here first
AlignAndTranslate ==
    /\ pc = "placed"
    /\ \E alignment \in TextAlignmentHorz, vert_alignment \in TextAlignmentVert,
          o \in Origins :
          LET adjusted == apply_knuth_plass_adjustments(
                              apply_harfbuzz_adjustments(left_aligned_glyphs))
              horz == align_text_horz(alignment, adjusted, line_break_offsets,
                                      overflow_checks_of(line_break_offsets))
              vert == align_text_vert(vert_alignment, horz.glyphs, line_break_offsets)
          IN  /\ horiz_alignment' = alignment
              /\ origin' = o
              /\ aligned_glyphs' = horz.glyphs
              /\ positioned_glyphs' =
                    IF horz.panicked THEN << >> ELSE add_origin(vert, o.x, o.y)
              /\ pc' = IF horz.panicked THEN "panicked" ELSE "done"
    /\ UNCHANGED << text, font, words, size, allows_horizontal_overflow, scrollbar_width,
                    overflow_pass_1, new_size, overflow_pass_2, left_aligned_glyphs,
                    line_break_offsets >>

Blank ==
    /\ pc = "start"
    /\ words = << >>
    /\ size = [width |-> 0, height |-> 0]
    /\ allows_horizontal_overflow = FALSE
    /\ scrollbar_width = 0
    /\ overflow_pass_1 = [horizontal |-> InBounds(0), vertical |-> InBounds(0)]
    /\ new_size = [width |-> 0, height |-> 0]
    /\ overflow_pass_2 = [horizontal |-> InBounds(0), vertical |-> InBounds(0)]
    /\ left_aligned_glyphs = << >>
    /\ line_break_offsets = << >>
    /\ horiz_alignment = "Left"
    /\ origin = [x |-> 0, y |-> 0]
    /\ aligned_glyphs = << >>
    /\ positioned_glyphs = << >>

\* get_glyphs on a text of ASCII characters
Init ==
    /\ text \in TextsOver(AsciiChars, MaxLen)
    /\ font \in Fonts
    /\ Blank

Next ==
    \/ SplitText
    \/ EstimateOverflowPass1
    \/ EstimateOverflowPass2
    \/ WordsToLeftAlignedGlyphs
    \/ AlignAndTranslate

Spec == Init /\ [][Next]_vars

\* split_text_into_words alone, on texts that NFC changes as well
InitSplit ==
    /\ text \in TextsOver(AllChars, MaxLen)
    /\ font \in Fonts
    /\ Blank

NextSplit == SplitText

SpecSplit == InitSplit /\ [][NextSplit]_vars

\* ------------------------------------------------------------------ claims
Estimated1 == pc \in {"pass1", "pass2", "placed", "done", "panicked"}
Estimated2 == pc \in {"pass2", "placed", "done", "panicked"}
Placed == pc \in {"placed", "done"}

\* every index of the line-break table names a placed glyph: no subtraction
\* of the placer wrapped
TableIndexesGlyphs ==
    \A i \in 1..Len(line_break_offsets) :
        line_break_offsets[i][1] < Len(left_aligned_glyphs)

\* C1: get_glyphs completes and returns a result for every text and every
\* rectangle: no stage of it ever panics.
C1_NeverAborts == pc # "panicked"

\* C2: whenever the placer returns a non-empty glyph sequence, its line-break
\* table is non-empty and the last entry's glyph index is glyphs.len() - 1.
C2_LastBreakIsLastGlyph ==
    (Placed /\ left_aligned_glyphs # << >>) =>
        /\ line_break_offsets # << >>
        /\ line_break_offsets[Len(line_break_offsets)][1] = Len(left_aligned_glyphs) - 1

\* C2 witness: a placement of several glyphs on several lines
C2_Witness ==
    /\ pc = "placed"
    /\ TableIndexesGlyphs
    /\ Len(left_aligned_glyphs) >= 2
    /\ Len(line_break_offsets) >= 2

\* C3: for the empty text get_glyphs returns no glyph and reports InBounds on
\* both axes, with the full width and the full height as slack.
C3_EmptyTextFullSlack ==
    (pc = "done" /\ text = << >>) =>
        /\ positioned_glyphs = << >>
        /\ overflow_pass_2 = [ horizontal |-> InBounds(size.width),
                               vertical   |-> InBounds(size.height) ]

\* C4: for a rectangle of width 0 or height 0 get_glyphs returns, for any
\* text, no glyph and InBounds on both axes.  Stated of the calls that return
\* without a wrapped subtraction; that get_glyphs always returns is C1.
C4_ZeroAreaIsEmpty ==
    (pc = "done" /\ TableIndexesGlyphs /\ (size.width = 0 \/ size.height = 0)) =>
        /\ positioned_glyphs = << >>
        /\ ~is_overflowing(overflow_pass_2.horizontal)
        /\ ~is_overflowing(overflow_pass_2.vertical)

\* the line the placer put a glyph on, read back from its y coordinate
LineOfGlyph(g) == (g.y - FontMetricsOf(font).offset_top) \div v_advance_scaled(font)

\* C5: for Center and Right alignment align_text_horz moves every glyph to the
\* right by factor * (recorded slack of the line the glyph was placed on),
\* factor 1/2 for Center and 1 for Right, and leaves every y unchanged.
\* Stated of the tables the placer computes without a wrapped subtraction.
C5_ShiftIsSlackOfOwnLine ==
    (pc = "done" /\ TableIndexesGlyphs /\ horiz_alignment \in {"Center", "Right"}) =>
        /\ Len(aligned_glyphs) = Len(left_aligned_glyphs)
        /\ \A i \in 1..Len(left_aligned_glyphs) :
              LET before == left_aligned_glyphs[i]
                  after == aligned_glyphs[i]
                  line == LineOfGlyph(before)
              IN  /\ after.y = before.y
                  /\ line + 1 <= Len(line_break_offsets)
                  /\ LET slack == line_break_offsets[line + 1][2]
                     IN  IF horiz_alignment = "Right"
                         THEN after.x - before.x = slack
                         ELSE 2 * (after.x - before.x) = slack

\* C6: pass 2 takes the scrollbar thickness off the height exactly when pass 1
\* overflows horizontally and off the width exactly when pass 1 overflows
\* vertically, once each, and returns pass 1 evaluated on that size.
C6_ReservationPerAxis ==
    Estimated2 =>
        /\ new_size.height = IF overflow_pass_1.horizontal.kind = "IsOverflowing"
                             THEN size.height - (2 * scrollbar_width) ELSE size.height
        /\ new_size.width = IF overflow_pass_1.vertical.kind = "IsOverflowing"
                            THEN size.width - (2 * scrollbar_width) ELSE size.width
        /\ overflow_pass_2 = estimate_overflow_pass_1(words, new_size, FontMetricsOf(font),
                                                      allows_horizontal_overflow)

\* C6 witness: both axes overflow in pass 1 and both reservations are made
C6_Witness ==
    /\ pc = "pass2"
    /\ scrollbar_width > 0
    /\ overflow_pass_1.horizontal.kind = "IsOverflowing"
    /\ overflow_pass_1.vertical.kind = "IsOverflowing"
    /\ new_size.width < size.width
    /\ new_size.height < size.height

RECURSIVE SumAdvances(_, _)
SumAdvances(f, glyphs) ==
    IF glyphs = << >> THEN 0
    ELSE advance_width(f, Head(glyphs).index) + SumAdvances(f, Tail(glyphs))

RECURSIVE SumKerning(_, _)
SumKerning(f, glyphs) ==
    IF Len(glyphs) < 2 THEN 0
    ELSE pair_kerning(f, glyphs[1].index, glyphs[2].index) + SumKerning(f, Tail(glyphs))

\* C7: the total_width of every Word is the sum of the advance widths of its
\* glyphs plus the kerning between each pair of adjacent glyphs.
C7_TotalWidthCountsKerning ==
    pc = "split" =>
        \A i \in 1..Len(words) :
            words[i].kind = "Word" =>
                words[i].total_width =
                    SumAdvances(font, words[i].glyphs) + SumKerning(font, words[i].glyphs)

\* the result the claim C8 gives for an axis
AxisResultOk(result, consumed, bound) ==
    /\ result.amount >= 0
    /\ IF consumed > bound
       THEN result.kind = "IsOverflowing" /\ result.amount = consumed - bound
       ELSE result.kind = "InBounds" /\ result.amount = bound - consumed

\* C8: each axis result of pass 1 and of pass 2 is IsOverflowing(consumed -
\* bound) exactly when consumed > bound and InBounds(bound - consumed)
\* otherwise, so the value carried is never negative.
C8_AxisResults ==
    /\ Estimated1 =>
          /\ AxisResultOk(overflow_pass_1.horizontal,
                 horz_max(words, size, FontMetricsOf(font), allows_horizontal_overflow),
                 size.width)
          /\ AxisResultOk(overflow_pass_1.vertical,
                 vertical_length(words, size, FontMetricsOf(font), allows_horizontal_overflow),
                 size.height)
    /\ Estimated2 =>
          /\ AxisResultOk(overflow_pass_2.horizontal,
                 horz_max(words, new_size, FontMetricsOf(font), allows_horizontal_overflow),
                 new_size.width)
          /\ AxisResultOk(overflow_pass_2.vertical,
                 vertical_length(words, new_size, FontMetricsOf(font),
                                 allows_horizontal_overflow),
                 new_size.height)

\* C8 witness: pass 2 on a width the reservation made negative
C8_Witness ==
    /\ pc = "pass2"
    /\ new_size.width < 0
    /\ overflow_pass_2.horizontal.kind = "IsOverflowing"
    /\ overflow_pass_2.horizontal.amount > size.width
    /\ overflow_pass_1.horizontal.kind = "InBounds"

CountOf(seq, c) == Cardinality({i \in 1..Len(seq) : seq[i] = c})
CountKind(ws, k) == Cardinality({i \in 1..Len(ws) : ws[i].kind = k})

\* the characters a token sequence stands for, separators of words left out
RECURSIVE CharsOfTokens(_)
CharsOfTokens(ws) ==
    IF ws = << >> THEN << >>
    ELSE (CASE Head(ws).kind = "Word" -> Head(ws).text
            [] Head(ws).kind = "Tab" -> << "\t" >>
            [] OTHER -> << "\n" >>) \o CharsOfTokens(Tail(ws))

RECURSIVE WithoutSpaces(_)
WithoutSpaces(chars) ==
    IF chars = << >> THEN << >>
    ELSE (IF Head(chars) = " " THEN << >> ELSE << Head(chars) >>) \o WithoutSpaces(Tail(chars))

ConsumedOf(result, bound) ==
    IF result.kind = "IsOverflowing" THEN bound + result.amount ELSE bound - result.amount

MaxOf(a, b) == IF a > b THEN a ELSE b

\* C11: with horizontal overflow not permitted, the horizontal extent pass 1
\* consumes is the largest line cursor of the wrapping simulation over all
\* lines, the last line included.
C11_WidestLineIsConsumed ==
    (Estimated1 /\ ~allows_horizontal_overflow) =>
        LET cursors == wrap_cursors(words, size.width, FontMetricsOf(font))
        IN  ConsumedOf(overflow_pass_1.horizontal, size.width) =
                MaxOf(cursors.max_line_cursor, cursors.cur_line_cursor)

\* the widest line of a token sequence cut at its Return tokens, the last line
\* included: words count their total_width, tabs the tab width
RECURSIVE WidestLine(_, _, _, _)
WidestLine(ws, cur, best, fm) ==
    IF ws = << >> THEN MaxOf(best, cur)
    ELSE CASE Head(ws).kind = "Word" ->
                WidestLine(Tail(ws), cur + Head(ws).total_width, best, fm)
           [] Head(ws).kind = "Tab" ->
                WidestLine(Tail(ws), cur + fm.tab_width, best, fm)
           [] OTHER ->
                WidestLine(Tail(ws), 0, MaxOf(best, cur), fm)

\* C12: with horizontal overflow permitted, the horizontal extent pass 1
\* consumes is the width of the widest line between explicit line breaks, the
\* last line included, whatever the rectangle width.
C12_WidestExplicitLineIsConsumed ==
    (Estimated1 /\ allows_horizontal_overflow) =>
        ConsumedOf(overflow_pass_1.horizontal, size.width) =
            WidestLine(words, 0, 0, FontMetricsOf(font))

\* The placement C13 describes: a word on line n, the number of breaks before
\* it, has its glyphs at (caret + relative x, n * vertical_advance +
\* offset_top); a break puts the caret back to 0; a word moves the caret by
\* total_width + space_width, a tab by tab_width.
RECURSIVE PlacementByLine(_, _, _, _, _)
PlacementByLine(ws, caret, n, max, fm) ==
    IF ws = << >> THEN << >>
    ELSE LET w == Head(ws)
         IN  CASE w.kind = "Word" ->
                    LET breaks == max.is_some /\ caret + w.total_width > max.value
                        start == IF breaks THEN 0 ELSE caret
                        line == IF breaks THEN n + 1 ELSE n
                    IN  [ i \in 1..Len(w.glyphs) |->
                            [ index |-> w.glyphs[i].index,
                              x |-> start + w.glyphs[i].x,
                              y |-> (line * fm.vertical_advance) + fm.offset_top ] ]
                        \o PlacementByLine(Tail(ws), start + w.total_width + fm.space_width,
                                           line, max, fm)
               [] w.kind = "Tab" ->
                    PlacementByLine(Tail(ws), caret + fm.tab_width, n, max, fm)
               [] OTHER ->
                    PlacementByLine(Tail(ws), 0, n + 1, max, fm)

\* C13: the placer puts every glyph of a word on line n at (caret +
\* relative x, n * vertical_advance + offset_top), vertical_advance and
\* offset_top being the fields of the FontMetrics it is given.  Stated of the
\* placements computed without a wrapped subtraction.
C13_LinesAdvanceByVerticalAdvance ==
    (Placed /\ TableIndexesGlyphs) =>
        left_aligned_glyphs =
            PlacementByLine(words, 0, 0, max_horizontal_text_width, FontMetricsOf(font))

\* C14: with horizontal overflow not permitted, the horizontal result of pass 1
\* is InBounds for every token sequence and every rectangle width.
C14_WrappingKeepsWidthInBounds ==
    (Estimated1 /\ ~allows_horizontal_overflow) =>
        overflow_pass_1.horizontal.kind = "InBounds"

\* the line breaks the placer performed: one table entry each, the entry of
\* the last line aside
BreaksPlaced ==
    Len(line_break_offsets) - (IF left_aligned_glyphs # << >> THEN 1 ELSE 0)

\* C15: with horizontal overflow not permitted, the estimator counts the line
\* breaks the placer performs on the same words and width: the vertical
\* extent of pass 2 is offset_top + vertical_advance * (breaks placed).
C15_EstimatorCountsPlacedBreaks ==
    (Placed /\ TableIndexesGlyphs /\ ~allows_horizontal_overflow) =>
        ConsumedOf(overflow_pass_2.vertical, new_size.height) =
            FontMetricsOf(font).offset_top
                + (FontMetricsOf(font).vertical_advance * BreaksPlaced)

\* C16: in the result of get_glyphs, an axis that pass 2 reports as
\* overflowing had its scrollbar reserved: pass 1 overflowed on it and the
\* thickness was taken off the other dimension.  Stated of the results that
\* hold glyphs, in an effective size that is not negative, with horizontal
\* overflow permitted (no width-triggered break takes part).
C16_OverflowImpliesReservation ==
    (/\ pc = "done"
     /\ allows_horizontal_overflow
     /\ positioned_glyphs # << >>
     /\ new_size.width >= 0
     /\ new_size.height >= 0) =>
        /\ overflow_pass_2.vertical.kind = "IsOverflowing" =>
              /\ overflow_pass_1.vertical.kind = "IsOverflowing"
              /\ new_size.width = size.width - (2 * scrollbar_width)
        /\ overflow_pass_2.horizontal.kind = "IsOverflowing" =>
              /\ overflow_pass_1.horizontal.kind = "IsOverflowing"
              /\ new_size.height = size.height - (2 * scrollbar_width)

====
